---- MODULE Spec2Model ----
(***************************************************************************)
(* A model of the docling-bedrock-plugin example programs:                 *)
(*   - add_bedrock_picture_descriptions (examples/bedrock_image_           *)
(*     description.py): fan-in of generated descriptions onto the          *)
(*     picture / caption / annotation nodes of a DoclingDocument;          *)
(*   - describe_image (examples/image_description.py);                     *)
(*   - the bounded worker pool the model adapter dispatches API calls on   *)
(*     (configured by PictureDescriptionBedrockApiOptions.max_workers).    *)
(* Python strings are TLA+ strings; Optional values are sequences of       *)
(* length 0 (None) or 1.                                                   *)
(***************************************************************************)
EXTENDS Integers, Sequences, FiniteSets, TLC

VARIABLES
    \* ---- add_bedrock_picture_descriptions ----
    doc,                     \* the DoclingDocument, mutated in place
    doc0,                    \* the document as it was when the call started
    enable_remote_services,  \* argument of the call
    pc,                      \* position in add_bedrock_picture_descriptions
    bedrock_model,           \* <<>> until constructed, then <<model>>
    pictures_to_process,     \* indices into doc.pictures
    images_to_process,       \* the images retrieved, same order
    descriptions,            \* list(results_iterable), as collected so far
    loop_i,                  \* index of the running for loop
    outcome,                 \* which return statement ended the call
    \* ---- describe_image ----
    d_pc, d_model, d_img, d_results, d_exc, d_ret,
    \* ---- worker pool of the model adapter ----
    max_workers, n_images, submitted, work_queue, num_threads, worker_task,
    calls, results, yielded

docVars == <<doc, doc0, enable_remote_services, pc, bedrock_model,
             pictures_to_process, images_to_process, descriptions, loop_i,
             outcome>>
descVars == <<d_pc, d_model, d_img, d_results, d_exc, d_ret>>
poolVars == <<max_workers, n_images, submitted, work_queue, num_threads,
              worker_task, calls, results, yielded>>
vars == <<docVars, descVars, poolVars>>

-----------------------------------------------------------------------------
(* Bounds of the model *)

\* largest number of pictures in a document
MaxPictures == 2

\* largest number of results the annotate call yields to describe_image
MaxResults == 2

\* largest number of images in a batch handed to the worker pool
MaxBatch == 4

-----------------------------------------------------------------------------
(* Python str operations *)

\* str.startswith(prefix)
startswith(s, prefix) ==
    /\ Len(s) >= Len(prefix)
    /\ SubSeq(s, 1, Len(prefix)) = prefix

\* the characters str.strip() removes
Whitespace == {" ", "\n", "\t", "\r", "\f"}

RECURSIVE lstrip(_)
lstrip(s) ==
    IF Len(s) > 0 /\ SubSeq(s, 1, 1) \in Whitespace
    THEN lstrip(SubSeq(s, 2, Len(s)))
    ELSE s

RECURSIVE rstrip(_)
rstrip(s) ==
    IF Len(s) > 0 /\ SubSeq(s, Len(s), Len(s)) \in Whitespace
    THEN rstrip(SubSeq(s, 1, Len(s) - 1))
    ELSE s

\* str.strip(): leading AND trailing whitespace removed
strip(s) == rstrip(lstrip(s))

-----------------------------------------------------------------------------
(* The host document model, as far as the example touches it *)

\* RefItem(cref="#/<path>/<idx>")
RefItem(path, idx) == [path |-> path, idx |-> idx]
TextRef(k) == RefItem("texts", k)
GroupRef(k) == RefItem("groups", k)
BodyRef == RefItem("body", 0)
\* a reference that is neither a text item nor a group (a table)
TableRef == RefItem("tables", 0)

\* DocItemLabel.CAPTION
CAPTION == "caption"

\* PictureDescriptionData(text=..., provenance=...)
PictureDescriptionData(text, provenance) ==
    [text |-> text, provenance |-> provenance]

\* PictureDescriptionBedrockApiOptions.provenance (default)
provenance_default == "amazon-bedrock"

\* the texts and groups of the documents explored
InitialTexts ==
    << [self_ref |-> TextRef(0), label |-> CAPTION, text |-> "Figure 1",
        parent |-> BodyRef],
       [self_ref |-> TextRef(1), label |-> "text", text |-> "Intro",
        parent |-> BodyRef] >>
InitialGroups == << [self_ref |-> GroupRef(0)] >>

OldAnnotation == PictureDescriptionData("old", "other-model")

\* the pictures of the documents explored: parent (Optional RefItem),
\* captions (List[RefItem]), annotations, and what get_image does
PictureShapes ==
    { [parent |-> <<>>, captions |-> <<>>, annotations |-> <<>>,
       image |-> "present"],
      [parent |-> <<BodyRef>>, captions |-> <<>>,
       annotations |-> <<OldAnnotation>>, image |-> "present"],
      [parent |-> <<TextRef(1)>>, captions |-> <<>>, annotations |-> <<>>,
       image |-> "present"],
      [parent |-> <<GroupRef(0)>>, captions |-> <<>>, annotations |-> <<>>,
       image |-> "present"],
      [parent |-> <<TableRef>>, captions |-> <<>>, annotations |-> <<>>,
       image |-> "present"],
      [parent |-> <<BodyRef>>, captions |-> <<TextRef(0)>>,
       annotations |-> <<>>, image |-> "present"],
      [parent |-> <<>>, captions |-> <<TextRef(1), TextRef(0)>>,
       annotations |-> <<OldAnnotation>>, image |-> "present"],
      [parent |-> <<BodyRef>>, captions |-> <<TableRef>>,
       annotations |-> <<>>, image |-> "present"],
      [parent |-> <<BodyRef>>, captions |-> <<>>, annotations |-> <<>>,
       image |-> "absent"],
      [parent |-> <<>>, captions |-> <<TextRef(0)>>, annotations |-> <<>>,
       image |-> "broken"] }

PictureLists == UNION { [1..n -> PictureShapes] : n \in 0..MaxPictures }

\* what the remote model may answer for one image
Descriptions == {"A cat", "", "Error: timeout", "Unsupported image format"}

-----------------------------------------------------------------------------
(* add_bedrock_picture_descriptions *)

Min(a, b) == IF a < b THEN a ELSE b

\* description_prefix = "\n\nImage Description: "
description_prefix == "\n\nImage Description: "

\* not description.startswith("Error") and not description.startswith("Unsupported")
Accepted(description) ==
    /\ ~startswith(description, "Error")
    /\ ~startswith(description, "Unsupported")

\* next((t for t in items if t.self_ref == ref), None), as an index (0: None)
FindBySelfRef(items, ref) ==
    LET hits == {k \in 1..Len(items) : items[k].self_ref = ref}
    IN IF hits = {} THEN 0
       ELSE CHOOSE k \in hits : \A j \in hits : k <= j

\* variant of AppendAnnotation: insert(0, item) in place of append(item)
AppendAnnotationAtFront(annotations, item) == <<item>> \o annotations

\* picture.annotations.append(item)
AppendAnnotation(annotations, item) == Append(annotations, item)

\* variant of HasCaption: the existing captions are never looked at
AlwaysNewCaption(caption_ref_list) == FALSE

\* if caption_ref_list: (an existing caption is appended to)
HasCaption(caption_ref_list) == caption_ref_list # <<>>

\* the parent the new caption is attached to: the text item, else the group,
\* with that self_ref, else doc.body
ParentItemRef(d, parent) ==
    IF parent = <<>> THEN BodyRef
    ELSE IF FindBySelfRef(d.texts, parent[1]) # 0
         THEN d.texts[FindBySelfRef(d.texts, parent[1])].self_ref
    ELSE IF FindBySelfRef(d.groups, parent[1]) # 0
         THEN d.groups[FindBySelfRef(d.groups, parent[1])].self_ref
    ELSE BodyRef

\* doc.add_text(text=..., label=..., parent=...): the new item gets the next
\* index of doc.texts as its self_ref and is appended to doc.texts
add_text(d, text, label, parent_ref) ==
    [d EXCEPT !.texts = Append(@, [self_ref |-> TextRef(Len(d.texts)),
                                   label |-> label, text |-> text,
                                   parent |-> parent_ref])]

\* caption_item.text += description_prefix + description, when the first
\* caption reference resolves to an item of doc.texts (every item of
\* doc.texts is a TextItem)
AppendToCaption(d, caption_item_ref, description) ==
    LET k == FindBySelfRef(d.texts, caption_item_ref)
    IN IF k # 0
       THEN [d EXCEPT !.texts[k].text = @ \o description_prefix \o description]
       ELSE d

\* doc.add_text(...) then picture.captions.append(RefItem(cref=new.self_ref))
CreateCaption(d, p, description) ==
    LET d1 == add_text(d, strip(description_prefix) \o description, CAPTION,
                       ParentItemRef(d, d.pictures[p].parent))
        new_caption_item == d1.texts[Len(d1.texts)]
    IN [d1 EXCEPT !.pictures[p].captions =
                      Append(@, new_caption_item.self_ref)]

\* the body of the zip loop for one (picture, description) pair
SpliceDescription(d, p, description, provenance) ==
    IF Accepted(description)
    THEN LET d1 == [d EXCEPT !.pictures[p].annotations =
                        AppendAnnotation(@,
                            PictureDescriptionData(description, provenance))]
         IN IF HasCaption(d1.pictures[p].captions)
            THEN AppendToCaption(d1, d1.pictures[p].captions[1], description)
            ELSE CreateCaption(d1, p, description)
    ELSE d

InitDoc ==
    /\ doc \in [pictures : PictureLists, texts : {InitialTexts},
                groups : {InitialGroups}]
    /\ doc0 = doc
    /\ enable_remote_services \in BOOLEAN
    /\ pc = "start"
    /\ bedrock_model = <<>>
    /\ pictures_to_process = <<>>
    /\ images_to_process = <<>>
    /\ descriptions = <<>>
    /\ loop_i = 1
    /\ outcome = "running"

\* if not enable_remote_services: return
RemoteDisabled ==
    /\ pc = "start"
    /\ ~enable_remote_services
    /\ pc' = "done"
    /\ outcome' = "remote_disabled"
    /\ UNCHANGED <<descVars, poolVars, doc, doc0, enable_remote_services,
                   bedrock_model,
                   pictures_to_process, images_to_process, descriptions,
                   loop_i>>

\* bedrock_model = PictureDescriptionBedrockApiModel(...) succeeds
ModelConstructed ==
    /\ pc = "start"
    /\ enable_remote_services
    /\ bedrock_model' = <<[provenance |-> provenance_default]>>
    /\ pc' = "extract"
    /\ loop_i' = 1
    /\ UNCHANGED <<descVars, poolVars, doc, doc0, enable_remote_services,
                   pictures_to_process,
                   images_to_process, descriptions, outcome>>

\* the constructor raises: except Exception: return
ModelInitFailed ==
    /\ pc = "start"
    /\ enable_remote_services
    /\ pc' = "done"
    /\ outcome' = "init_failed"
    /\ UNCHANGED <<descVars, poolVars, doc, doc0, enable_remote_services,
                   bedrock_model,
                   pictures_to_process, images_to_process, descriptions,
                   loop_i>>

\* one iteration of: for picture in doc.pictures
ExtractImage ==
    /\ pc = "extract"
    /\ loop_i <= Len(doc.pictures)
    /\ IF doc.pictures[loop_i].image = "present"
       THEN /\ pictures_to_process' = Append(pictures_to_process, loop_i)
            /\ images_to_process' = Append(images_to_process, loop_i)
       ELSE \* get_image returned None, or raised and was logged
            UNCHANGED <<pictures_to_process, images_to_process>>
    /\ loop_i' = loop_i + 1
    /\ UNCHANGED <<descVars, poolVars, doc, doc0, enable_remote_services,
                   pc, bedrock_model,
                   descriptions, outcome>>

\* if not images_to_process: return
NoImages ==
    /\ pc = "extract"
    /\ loop_i > Len(doc.pictures)
    /\ images_to_process = <<>>
    /\ pc' = "done"
    /\ outcome' = "no_images"
    /\ UNCHANGED <<descVars, poolVars, doc, doc0, enable_remote_services,
                   bedrock_model,
                   pictures_to_process, images_to_process, descriptions,
                   loop_i>>

\* results_iterable = bedrock_model._annotate_images(images_to_process)
StartAnnotate ==
    /\ pc = "extract"
    /\ loop_i > Len(doc.pictures)
    /\ images_to_process # <<>>
    /\ pc' = "annotate"
    /\ UNCHANGED <<descVars, poolVars, doc, doc0, enable_remote_services,
                   bedrock_model,
                   pictures_to_process, images_to_process, descriptions,
                   loop_i, outcome>>

\* list(results_iterable) receives the next description
AnnotateYield ==
    /\ pc = "annotate"
    /\ Len(descriptions) < Len(images_to_process)
    /\ \E description \in Descriptions :
           descriptions' = Append(descriptions, description)
    /\ UNCHANGED <<descVars, poolVars, doc, doc0, enable_remote_services,
                   pc, bedrock_model,
                   pictures_to_process, images_to_process, loop_i, outcome>>

\* variant of AnnotateRaised: the except clause logs and falls through
AnnotateRaisedContinues ==
    /\ pc = "annotate"
    /\ Len(descriptions) < Len(images_to_process)
    /\ pc' = "splice"
    /\ loop_i' = 1
    /\ outcome' = "annotate_failed"
    /\ UNCHANGED <<descVars, poolVars, doc, doc0, enable_remote_services,
                   bedrock_model,
                   pictures_to_process, images_to_process, descriptions>>

\* the iterable raises while it is collected: except Exception: return
AnnotateRaised ==
    /\ pc = "annotate"
    /\ Len(descriptions) < Len(images_to_process)
    /\ pc' = "done"
    /\ outcome' = "annotate_failed"
    /\ UNCHANGED <<descVars, poolVars, doc, doc0, enable_remote_services,
                   bedrock_model,
                   pictures_to_process, images_to_process, descriptions,
                   loop_i>>

\* the iterable is exhausted: descriptions is complete
AnnotateDone ==
    /\ pc = "annotate"
    /\ Len(descriptions) = Len(images_to_process)
    /\ pc' = "splice"
    /\ loop_i' = 1
    /\ UNCHANGED <<descVars, poolVars, doc, doc0, enable_remote_services,
                   bedrock_model,
                   pictures_to_process, images_to_process, descriptions,
                   outcome>>

\* one iteration of: for picture, description in zip(...)
SpliceOne ==
    /\ pc = "splice"
    /\ loop_i <= Min(Len(pictures_to_process), Len(descriptions))
    /\ doc' = SpliceDescription(doc, pictures_to_process[loop_i],
                                descriptions[loop_i],
                                bedrock_model[1].provenance)
    /\ loop_i' = loop_i + 1
    /\ UNCHANGED <<descVars, poolVars, doc0, enable_remote_services, pc,
                   bedrock_model,
                   pictures_to_process, images_to_process, descriptions,
                   outcome>>

\* the zip loop ends and the function returns
Completed ==
    /\ pc = "splice"
    /\ loop_i > Min(Len(pictures_to_process), Len(descriptions))
    /\ pc' = "done"
    /\ outcome' = "completed"
    /\ UNCHANGED <<descVars, poolVars, doc, doc0, enable_remote_services,
                   bedrock_model,
                   pictures_to_process, images_to_process, descriptions,
                   loop_i>>

IdleDoc ==
    /\ doc = [pictures |-> <<>>, texts |-> <<>>, groups |-> <<>>]
    /\ doc0 = doc
    /\ enable_remote_services = FALSE
    /\ pc = "idle"
    /\ bedrock_model = <<>>
    /\ pictures_to_process = <<>>
    /\ images_to_process = <<>>
    /\ descriptions = <<>>
    /\ loop_i = 1
    /\ outcome = "idle"

NextDoc ==
    \/ RemoteDisabled
    \/ ModelConstructed
    \/ ModelInitFailed
    \/ ExtractImage
    \/ NoImages
    \/ StartAnnotate
    \/ AnnotateYield
    \/ AnnotateRaised
    \/ AnnotateDone
    \/ SpliceOne
    \/ Completed

-----------------------------------------------------------------------------
(* Properties of add_bedrock_picture_descriptions *)

\* the (picture, description) pairs of the zip loop
Pairs == 1..Min(Len(pictures_to_process), Len(descriptions))

ReturnedNormally == pc = "done" /\ outcome = "completed"

\* C1: after the call has run to completion, every picture paired with a
\* description that starts with neither "Error" nor "Unsupported" has exactly
\* one more annotation than before, at the end of its annotation list, with
\* that description as text and the model's provenance; the annotations it
\* had before are unchanged and in the same order.
C1_AnnotationAppended ==
    ReturnedNormally =>
        \A k \in Pairs :
            LET p == pictures_to_process[k]
                before == doc0.pictures[p].annotations
                after == doc.pictures[p].annotations
            IN (~startswith(descriptions[k], "Error")
                /\ ~startswith(descriptions[k], "Unsupported")) =>
                   /\ Len(after) = Len(before) + 1
                   /\ after[Len(after)].text = descriptions[k]
                   /\ after[Len(after)].provenance = bedrock_model[1].provenance
                   /\ SubSeq(after, 1, Len(before)) = before

C1_Witness ==
    /\ ReturnedNormally
    /\ \E k \in Pairs :
           /\ descriptions[k] = "A cat"
           /\ doc0.pictures[pictures_to_process[k]].annotations # <<>>

AnnotationsGrew(p) ==
    Len(doc.pictures[p].annotations) > Len(doc0.pictures[p].annotations)
CaptionsGrew(p) ==
    Len(doc.pictures[p].captions) > Len(doc0.pictures[p].captions)

\* C2 as stated: for every picture, the annotation list grows if and only if
\* the caption reference list grows.
C2_GrowTogether ==
    pc = "done" =>
        \A p \in 1..Len(doc.pictures) : AnnotationsGrew(p) <=> CaptionsGrew(p)

\* C2 amended: a picture's caption reference list grows (by one entry) if and
\* only if its annotation list grows (by one entry) and the picture had no
\* caption reference before the call.
C2_CaptionRefOnlyWhenNone ==
    /\ Len(doc.pictures) = Len(doc0.pictures)
    /\ \A p \in 1..Len(doc.pictures) :
           /\ CaptionsGrew(p) <=>
                  (AnnotationsGrew(p) /\ doc0.pictures[p].captions = <<>>)
           /\ AnnotationsGrew(p) =>
                  Len(doc.pictures[p].annotations) =
                      Len(doc0.pictures[p].annotations) + 1
           /\ IF CaptionsGrew(p)
              THEN Len(doc.pictures[p].captions) =
                       Len(doc0.pictures[p].captions) + 1
              ELSE doc.pictures[p].captions = doc0.pictures[p].captions

C2_Witness ==
    /\ ReturnedNormally
    /\ \E p \in 1..Len(doc.pictures) :
           /\ AnnotationsGrew(p)
           /\ ~CaptionsGrew(p)
    /\ \E p \in 1..Len(doc.pictures) :
           /\ AnnotationsGrew(p)
           /\ CaptionsGrew(p)

EarlyExits == {"remote_disabled", "init_failed", "no_images", "annotate_failed"}

\* C5: in every early-exit case (remote services disabled, model construction
\* raised, no picture yields an image, the annotate call raised while being
\* collected) the document is exactly what it was; with remote services
\* disabled the model is never constructed; and nothing is mutated before the
\* list of descriptions is complete.
C5_EarlyExitLeavesDocument ==
    /\ outcome \in EarlyExits => doc = doc0
    /\ outcome = "remote_disabled" => bedrock_model = <<>>
    /\ pc \in {"start", "extract", "annotate"} => doc = doc0

C5_Witness ==
    /\ pc = "done"
    /\ outcome = "annotate_failed"
    /\ \E k \in 1..Len(descriptions) : descriptions[k] = "A cat"
    /\ Len(descriptions) < Len(images_to_process)

\* the label a new caption is meant to start with
ImageDescriptionLabel == "Image Description: "

\* the item a new caption is meant to hang under
ExpectedParent(p) ==
    LET parent == doc0.pictures[p].parent
    IN IF parent = <<>> THEN BodyRef
       ELSE IF \E t \in 1..Len(doc.texts) : doc.texts[t].self_ref = parent[1]
            THEN parent[1]
       ELSE IF \E g \in 1..Len(doc.groups) : doc.groups[g].self_ref = parent[1]
            THEN parent[1]
       ELSE BodyRef

\* the pairs that create a caption: accepted description, no caption before
Captionless ==
    {k \in Pairs : /\ Accepted(descriptions[k])
                   /\ doc0.pictures[pictures_to_process[k]].captions = <<>>}

\* what C6 says of the new caption apart from its text
C6_NewCaptionLinked ==
    ReturnedNormally =>
        /\ Len(doc.texts) = Len(doc0.texts) + Cardinality(Captionless)
        /\ \A k \in Captionless :
               LET caps == doc.pictures[pictures_to_process[k]].captions
                   t == FindBySelfRef(doc.texts, caps[1])
               IN /\ Len(caps) = 1
                  /\ t > Len(doc0.texts)
                  /\ doc.texts[t].label = CAPTION
                  /\ doc.texts[t].parent = ExpectedParent(pictures_to_process[k])
        /\ \A j, k \in Captionless :
               j # k => doc.pictures[pictures_to_process[j]].captions #
                        doc.pictures[pictures_to_process[k]].captions

\* C6: a picture with no caption reference that receives an accepted
\* description gets exactly one new CAPTION text item and one caption
\* reference to it; the item hangs under the text item, else the group, named
\* by the picture's parent reference, else under the body; and its text is
\* "Image Description: " (with the space) followed by the description.
C6_NewCaption ==
    /\ C6_NewCaptionLinked
    /\ ReturnedNormally =>
           \A k \in Captionless :
               LET caps == doc.pictures[pictures_to_process[k]].captions
                   t == FindBySelfRef(doc.texts, caps[1])
               IN doc.texts[t].text = ImageDescriptionLabel \o descriptions[k]

-----------------------------------------------------------------------------
(* describe_image *)

\* str(e) of the exceptions the three calls in the try block may raise
ExceptionMessages ==
    {"", "Unable to locate credentials", "cannot identify image file"}

\* return f"Error: {str(e)}"
ErrorReturn(message) == "Error: " \o message

\* variant of ReturnValue: results[-1] in place of results[0]
ReturnLastResult(res) ==
    IF res # <<>> /\ Len(res) > 0
    THEN res[Len(res)]
    ELSE "No description was generated"

\* if results and len(results) > 0: return results[0]
\* else: return "No description was generated"
ReturnValue(res) ==
    IF res # <<>> /\ Len(res) > 0
    THEN res[1]
    ELSE "No description was generated"

IdleDesc ==
    /\ d_pc = "idle"
    /\ d_model = FALSE
    /\ d_img = FALSE
    /\ d_results = <<>>
    /\ d_exc = <<>>
    /\ d_ret = <<>>

InitDescribe ==
    /\ d_pc = "start"
    /\ d_model = FALSE
    /\ d_img = FALSE
    /\ d_results = <<>>
    /\ d_exc = <<>>
    /\ d_ret = <<>>

\* bedrock_model = PictureDescriptionBedrockApiModel(...)
DescribeModelConstructed ==
    /\ d_pc = "start"
    /\ d_model' = TRUE
    /\ d_pc' = "load"
    /\ UNCHANGED <<docVars, poolVars, d_img, d_results, d_exc, d_ret>>

\* img = Image.open(image_path)
DescribeImageOpened ==
    /\ d_pc = "load"
    /\ d_img' = TRUE
    /\ d_pc' = "annotate"
    /\ UNCHANGED <<docVars, poolVars, d_model, d_results, d_exc, d_ret>>

\* list(bedrock_model._annotate_images([img])) receives the next result
DescribeAnnotateYield ==
    /\ d_pc = "annotate"
    /\ Len(d_results) < MaxResults
    /\ \E description \in Descriptions :
           d_results' = Append(d_results, description)
    /\ UNCHANGED <<docVars, poolVars, d_pc, d_model, d_img, d_exc, d_ret>>

\* the list is complete: the if / else that returns
DescribeReturns ==
    /\ d_pc = "annotate"
    /\ d_ret' = <<ReturnValue(d_results)>>
    /\ d_pc' = "returned"
    /\ UNCHANGED <<docVars, poolVars, d_model, d_img, d_results, d_exc>>

\* any of the three calls raises: except Exception as e: return "Error: ..."
DescribeRaises ==
    /\ d_pc \in {"start", "load", "annotate"}
    /\ \E message \in ExceptionMessages :
           /\ d_exc' = <<message>>
           /\ d_ret' = <<ErrorReturn(message)>>
    /\ d_pc' = "returned"
    /\ UNCHANGED <<docVars, poolVars, d_model, d_img, d_results>>

NextDescribe ==
    \/ DescribeModelConstructed
    \/ DescribeImageOpened
    \/ DescribeAnnotateYield
    \/ DescribeReturns
    \/ DescribeRaises

\* C4: describe_image ends by returning a string, whatever happens: "Error: "
\* and the exception's message when one of the calls raised, "No description
\* was generated" when the annotate call yielded nothing, and otherwise the
\* first result yielded, unchanged.
C4_DescribeImageReturn ==
    /\ d_pc \in {"start", "load", "annotate", "returned"}
    /\ d_pc = "returned" =>
           /\ Len(d_ret) = 1
           /\ d_ret[1] \in STRING
           /\ d_exc # <<>> => d_ret[1] = "Error: " \o d_exc[1]
           /\ (d_exc = <<>> /\ Len(d_results) = 0) =>
                  d_ret[1] = "No description was generated"
           /\ (d_exc = <<>> /\ Len(d_results) > 0) => d_ret[1] = d_results[1]
    /\ d_pc # "returned" => d_ret = <<>>

C4_Witness ==
    /\ d_pc = "returned"
    /\ d_exc = <<>>
    /\ Len(d_results) = 2
    /\ d_results[1] = "Error: timeout"
    /\ d_results[2] = "A cat"
    /\ d_ret = <<"Error: timeout">>

-----------------------------------------------------------------------------
(* The worker pool of the model adapter: the images of a batch are handed to *)
(* a thread pool of max_workers threads, each task one call of the remote API *)

\* PictureDescriptionBedrockApiOptions.max_workers (default)
max_workers_default == 3

\* the API calls in flight: the tasks the worker threads are running
InFlight == {w \in 1..Len(worker_task) : worker_task[w] # 0}

\* variant of CanSpawnThread: one thread per submitted task
SpawnAlways == TRUE

\* a new worker thread is started only below max_workers
CanSpawnThread == num_threads < max_workers

IdlePool ==
    /\ max_workers = 0
    /\ n_images = 0
    /\ submitted = 0
    /\ work_queue = <<>>
    /\ num_threads = 0
    /\ worker_task = <<>>
    /\ calls = <<>>
    /\ results = <<>>
    /\ yielded = 0

InitPool ==
    /\ max_workers \in 1..max_workers_default
    /\ n_images \in 0..MaxBatch
    /\ submitted = 0
    /\ work_queue = <<>>
    /\ num_threads = 0
    /\ worker_task = <<>>
    /\ calls = [i \in 1..n_images |-> 0]
    /\ results = [i \in 1..n_images |-> <<>>]
    /\ yielded = 0

\* the next image of the batch is submitted to the pool
Submit ==
    /\ submitted < n_images
    /\ submitted' = submitted + 1
    /\ work_queue' = Append(work_queue, submitted + 1)
    /\ IF CanSpawnThread
       THEN /\ num_threads' = num_threads + 1
            /\ worker_task' = Append(worker_task, 0)
       ELSE UNCHANGED <<num_threads, worker_task>>
    /\ UNCHANGED <<docVars, descVars, max_workers, n_images, calls, results,
                   yielded>>

\* an idle worker thread takes the oldest task and calls the remote API
WorkerTake ==
    \E w \in 1..Len(worker_task) :
        /\ worker_task[w] = 0
        /\ work_queue # <<>>
        /\ worker_task' = [worker_task EXCEPT ![w] = Head(work_queue)]
        /\ work_queue' = Tail(work_queue)
        /\ calls' = [calls EXCEPT ![Head(work_queue)] = @ + 1]
        /\ UNCHANGED <<docVars, descVars, max_workers, n_images, submitted,
                       num_threads, results, yielded>>

\* the call of a worker returns: a description, or an error text
WorkerFinish ==
    \E w \in InFlight :
        /\ \E text \in {"A cat", "Error: timeout"} :
               results' = [results EXCEPT ![worker_task[w]] = <<text>>]
        /\ worker_task' = [worker_task EXCEPT ![w] = 0]
        /\ UNCHANGED <<docVars, descVars, max_workers, n_images, submitted,
                       work_queue, num_threads, calls, yielded>>

\* the next description, in the order of the images, is handed to the caller
YieldResult ==
    /\ yielded < n_images
    /\ results[yielded + 1] # <<>>
    /\ yielded' = yielded + 1
    /\ UNCHANGED <<docVars, descVars, max_workers, n_images, submitted,
                   work_queue, num_threads, worker_task, calls, results>>

NextPool ==
    \/ Submit
    \/ WorkerTake
    \/ WorkerFinish
    \/ YieldResult

\* C3: with max_workers = N, never more than N calls of the remote API are in
\* flight, whatever the batch size and the order in which calls complete; no
\* image is submitted to the API twice, and every image eventually is, once.
C3_BoundedPool ==
    /\ [](Cardinality(InFlight) <= max_workers)
    /\ [](\A i \in 1..n_images : calls[i] <= 1)
    /\ <>(\A i \in 1..n_images : calls[i] = 1)

C3_Witness ==
    /\ Cardinality(InFlight) = max_workers
    /\ max_workers = max_workers_default
    /\ work_queue # <<>>

-----------------------------------------------------------------------------
(* Specifications *)

\* add_bedrock_picture_descriptions on a document
Init == InitDoc /\ IdleDesc /\ IdlePool
Next == NextDoc
Spec == Init /\ [][Next]_vars

\* describe_image on an image path
InitDescribeImage == IdleDoc /\ InitDescribe /\ IdlePool
SpecDescribe == InitDescribeImage /\ [][NextDescribe]_vars

\* a batch on the worker pool; the threads are scheduled and calls return
InitBatch == IdleDoc /\ IdleDesc /\ InitPool
FairSpecPool ==
    /\ InitBatch
    /\ [][NextPool]_vars
    /\ WF_vars(NextPool)

====
